---- MODULE Spec2Model ----
(***************************************************************************)
(* A model of the code quality agent: the read-only sandboxed filesystem   *)
(* (agent/fs_ro.py), the header checker (agent/header_rules.py), the       *)
(* documentation generator (agent/docgen.py) and the LangGraph pipeline    *)
(* that threads one AgentState through the five nodes                      *)
(* (agent/graph_agent.py).                                                 *)
(*                                                                         *)
(* Text is a sequence of tokens.  A token is one character (" ", "\n",     *)
(* "#", "x", ...) or one indivisible piece of text that the code only      *)
(* ever treats as a whole (a header marker such as "Description:", the     *)
(* fence of three backquotes, written "FENCE", the extension ".py").  A    *)
(* file name is a text, a path is a sequence of names.                     *)
(***************************************************************************)
EXTENDS Integers, Sequences, FiniteSets, TLC

VARIABLES
    disk,          \* the filesystem the pipeline runs on (path -> entry)
    state,         \* the AgentState record threaded through the nodes
    pc,            \* the node the graph is executing
    idx,           \* position of the running node's loop in state.file_list
    acc,           \* the running node's local mapping (issues / all_findings / docs)
    outdir,        \* the output directory: whether it exists, file name -> text written
    error,         \* the exception that ended the run, "" when none
    started,       \* the nodes entered so far, in order
    events,        \* one record per file a node has handled, in order
    llm_log,       \* relative paths the LLM was invoked for, in order
    fs_call,       \* one call of a ReadOnlySandboxFS operation
    trunc_call,    \* one call of _truncate_source through generate_doc_for_file
    header_call,   \* one call of check_header
    extract_call   \* one call of _extract_text

vars == <<disk, state, pc, idx, acc, outdir, error, started, events, llm_log,
          fs_call, trunc_call, header_call, extract_call>>

pipeline_vars == <<disk, state, pc, idx, acc, outdir, error, started, events, llm_log>>

call_vars == <<fs_call, trunc_call, header_call, extract_call>>

(***************************************************************************)
(* Bounds of the model.                                                    *)
(***************************************************************************)
MaxPathLen == 3        \* segments of a path handed to the sandbox
MaxLinkDepth == 3      \* nested symbolic links followed by one resolution

(***************************************************************************)
(* Sequences and text.                                                     *)
(***************************************************************************)
Range(s) == {s[i] : i \in 1..Len(s)}

Front(s) == SubSeq(s, 1, Len(s) - 1)

IsPrefix(p, s) == Len(p) <= Len(s) /\ SubSeq(s, 1, Len(p)) = p

SeqsUpTo(S, n) == UNION {[1..k -> S] : k \in 0..n}

RECURSIVE Flatten(_)
Flatten(ss) == IF ss = <<>> THEN <<>> ELSE Head(ss) \o Flatten(Tail(ss))

\* sep.join(items) of str.join
RECURSIVE Join(_, _)
Join(sep, items) ==
    IF items = <<>> THEN <<>>
    ELSE IF Len(items) = 1 THEN items[1]
    ELSE items[1] \o sep \o Join(sep, Tail(items))

Whitespace == {" ", "\n", "\t"}

IsBlank(s) == \A i \in 1..Len(s) : s[i] \in Whitespace

\* str.lstrip / str.rstrip / str.strip with no argument
RECURSIVE LStrip(_)
LStrip(s) == IF s # <<>> /\ Head(s) \in Whitespace THEN LStrip(Tail(s)) ELSE s

RECURSIVE RStrip(_)
RStrip(s) == IF s # <<>> /\ s[Len(s)] \in Whitespace THEN RStrip(Front(s)) ELSE s

Strip(s) == RStrip(LStrip(s))

\* str.splitlines(): lines without their terminators, no empty last line
RECURSIVE SplitLinesFrom(_, _)
SplitLinesFrom(s, cur) ==
    IF s = <<>> THEN (IF cur = <<>> THEN <<>> ELSE <<cur>>)
    ELSE IF Head(s) = "\n" THEN <<cur>> \o SplitLinesFrom(Tail(s), <<>>)
    ELSE SplitLinesFrom(Tail(s), Append(cur, Head(s)))

SplitLines(s) == SplitLinesFrom(s, <<>>)

\* a dict: a function from its keys; d[k] = v of Python
EmptyDict == <<>>

DictSet(d, k, v) == [x \in (DOMAIN d) \cup {k} |-> IF x = k THEN v ELSE d[x]]

(***************************************************************************)
(* Paths (pathlib.Path) and the filesystem.                                *)
(*                                                                         *)
(* A Path is [abs, parts]; pathlib drops "." and empty segments when the   *)
(* Path is built and keeps "..".  The filesystem maps the canonical        *)
(* absolute parts of every entry to the entry: a directory, a regular      *)
(* file (its bytes and its size) or a symbolic link (its target Path).     *)
(***************************************************************************)
nR == <<"r">>
nRx == <<"r", "x">>
nA == <<"a">>
nO == <<"o">>
nBpy == <<"b", ".py">>
nSpy == <<"s", ".py">>
nLnk == <<"l", "n", "k">>
nRl == <<"r", "l">>
nNone == <<"n", "o">>
DotDot == <<".", ".">>
Tilde == <<"~">>

AbsPath(parts) == [abs |-> TRUE, parts |-> parts]
RelPath(parts) == [abs |-> FALSE, parts |-> parts]

Dir == [type |-> "dir", data |-> <<>>, size |-> 0, target |-> AbsPath(<<>>)]
File(data, size) == [type |-> "file", data |-> data, size |-> size, target |-> AbsPath(<<>>)]
Link(target) == [type |-> "link", data |-> <<>>, size |-> 0, target |-> target]

HomeDir == <<nO>>      \* what "~" expands to: a directory outside the sandbox

Exists(fs, p) == p \in DOMAIN fs
IsLink(fs, p) == Exists(fs, p) /\ fs[p].type = "link"
IsFile(fs, p) == Exists(fs, p) /\ fs[p].type = "file"
IsDir(fs, p) == Exists(fs, p) /\ fs[p].type = "dir"

\* Path.expanduser(): a leading "~" of a relative path becomes the home directory
expanduser(path) ==
    IF ~path.abs /\ path.parts # <<>> /\ Head(path.parts) = Tilde
    THEN AbsPath(HomeDir \o Tail(path.parts))
    ELSE path

\* os.path.realpath(strict=False): walks the segments left to right; ".." drops
\* the last resolved segment, a symbolic link is replaced by its resolved target,
\* any other segment (existing or not) is appended as it is.
RECURSIVE JoinRealpath(_, _, _, _)
JoinRealpath(fs, path, rest, fuel) ==
    IF rest = <<>> THEN path
    ELSE LET name == Head(rest)
             newpath == Append(path, name)
         IN  IF name = DotDot
             THEN JoinRealpath(fs, IF path = <<>> THEN <<>> ELSE Front(path), Tail(rest), fuel)
             ELSE IF IsLink(fs, newpath) /\ fuel > 0
             THEN LET t == fs[newpath].target
                      link == JoinRealpath(fs, IF t.abs THEN <<>> ELSE path, t.parts, fuel - 1)
                  IN  JoinRealpath(fs, link, Tail(rest), fuel)
             ELSE JoinRealpath(fs, newpath, Tail(rest), fuel)

\* Path.resolve(strict=False): relative paths are taken from the working directory
resolve(fs, cwd, path) ==
    AbsPath(JoinRealpath(fs, IF path.abs THEN <<>> ELSE cwd, path.parts, MaxLinkDepth))

\* PurePath.is_relative_to: segment-wise, on the parts as they stand
is_relative_to(path, other) == IsPrefix(other.parts, path.parts)

\* PurePath.relative_to
relative_to(path, other) ==
    RelPath(SubSeq(path.parts, Len(other.parts) + 1, Len(path.parts)))

(***************************************************************************)
(* ReadOnlySandboxFS (agent/fs_ro.py).  Every operation returns            *)
(* [status, value, read_from]: status is "ok" or the exception raised,     *)
(* value the Path or text returned, read_from the parts of the entry whose *)
(* bytes were read (<<>> when nothing was read).                           *)
(***************************************************************************)
max_bytes == 2000000

Raise(exc) == [status |-> exc, value |-> <<>>, read_from |-> <<>>]
Return(v) == [status |-> "ok", value |-> v, read_from |-> <<>>]

\* __post_init__: root_dir.expanduser().resolve(strict=True)
post_init(fs, cwd, root_arg) == resolve(fs, cwd, expanduser(root_arg))

\* the containment test decided on the unresolved candidate
ResolveUnderRootLexical(fs, root_dir, path) ==
    LET candidate == IF ~path.abs THEN AbsPath(root_dir.parts \o path.parts) ELSE path
        resolved == resolve(fs, <<>>, expanduser(candidate))
    IN  IF ~is_relative_to(candidate, root_dir)
        THEN Raise("SandboxViolation")
        ELSE Return(resolved)

_resolve_under_root(fs, root_dir, path) ==
    LET candidate == IF ~path.abs THEN AbsPath(root_dir.parts \o path.parts) ELSE path
        resolved == resolve(fs, <<>>, expanduser(candidate))
    IN  IF ~is_relative_to(resolved, root_dir)
        THEN Raise("SandboxViolation")
        ELSE Return(resolved)

\* bytes.decode("utf-8", errors="replace"): an invalid byte becomes U+FFFD
decode(data) == [i \in 1..Len(data) |-> IF data[i] = "\\xff" THEN "\\ufffd" ELSE data[i]]

read_text(fs, root_dir, rel_or_abs_path) ==
    LET r == _resolve_under_root(fs, root_dir, rel_or_abs_path)
        p == r.value.parts
    IN  IF r.status # "ok" THEN r
        ELSE IF ~Exists(fs, p) \/ ~IsFile(fs, p) THEN Raise("FileNotFoundError")
        ELSE IF fs[p].size > max_bytes THEN Raise("ValueError")
        ELSE [status |-> "ok", value |-> decode(fs[p].data), read_from |-> p]

relpath(fs, cwd, root_dir, abs_path) ==
    LET abs_resolved == resolve(fs, cwd, expanduser(abs_path))
    IN  IF ~is_relative_to(abs_resolved, root_dir)
        THEN Raise("SandboxViolation")
        ELSE Return(relative_to(abs_resolved, root_dir))

(***************************************************************************)
(* The sandbox operations on their own: a tree with links that leave the   *)
(* root, and every path of up to MaxPathLen segments.                      *)
(*                                                                         *)
(*   /r            the sandbox root          /rl -> /r                     *)
(*   /r/a/b.py     a file inside             /rx      a sibling file       *)
(*   /r/lnk        a link: to /o, to /r/a    /o/s.py  a file outside       *)
(*                 or to ../o/s.py                                         *)
(***************************************************************************)
SecretData == <<"s", "e", "c", "r", "e", "t">>
InsideData == <<"x", "\\xff", "\n">>

LinkTargets == {AbsPath(<<nO>>), AbsPath(<<nR, nA>>), RelPath(<<DotDot, nO, nSpy>>)}

Tree(lnk) ==
    (<<nR>> :> Dir) @@ (<<nR, nA>> :> Dir) @@ (<<nR, nA, nBpy>> :> File(InsideData, 3))
    @@ (<<nR, nLnk>> :> Link(lnk))
    @@ (<<nRl>> :> Link(AbsPath(<<nR>>)))
    @@ (<<nRx>> :> File(SecretData, 6))
    @@ (<<nO>> :> Dir) @@ (<<nO, nSpy>> :> File(SecretData, 6))

Segments == {nR, nRx, nA, nO, nBpy, nSpy, nLnk, DotDot, Tilde, nNone}

\* the working directory and the root_dir argument of the constructor
FsEnvs == {[cwd |-> <<>>, root_arg |-> AbsPath(<<nR>>)],
           [cwd |-> <<nR>>, root_arg |-> AbsPath(<<nRl>>)]}

FsOps == {"_resolve_under_root", "read_text", "relpath"}

FsIdle == [st |-> "idle", fs |-> <<>>, cwd |-> <<>>, root_arg |-> AbsPath(<<>>),
           op |-> "", path |-> AbsPath(<<>>), result |-> Raise("")]

FsInit ==
    \E lnk \in LinkTargets, env \in FsEnvs,
       op \in FsOps, abs \in BOOLEAN, parts \in SeqsUpTo(Segments, MaxPathLen) :
        fs_call = [st |-> "called", fs |-> Tree(lnk), cwd |-> env.cwd, root_arg |-> env.root_arg,
                   op |-> op, path |-> [abs |-> abs, parts |-> parts], result |-> Raise("")]

FsRoot(c) == post_init(c.fs, c.cwd, c.root_arg)

ResolveUnderRootCall ==
    /\ fs_call.st = "called" /\ fs_call.op = "_resolve_under_root"
    /\ fs_call' = [fs_call EXCEPT !.st = "done",
                       !.result = _resolve_under_root(fs_call.fs, FsRoot(fs_call), fs_call.path)]
    /\ UNCHANGED <<pipeline_vars, trunc_call, header_call, extract_call>>

ReadTextCall ==
    /\ fs_call.st = "called" /\ fs_call.op = "read_text"
    /\ fs_call' = [fs_call EXCEPT !.st = "done",
                       !.result = read_text(fs_call.fs, FsRoot(fs_call), fs_call.path)]
    /\ UNCHANGED <<pipeline_vars, trunc_call, header_call, extract_call>>

RelpathCall ==
    /\ fs_call.st = "called" /\ fs_call.op = "relpath"
    /\ fs_call' = [fs_call EXCEPT !.st = "done",
                       !.result = relpath(fs_call.fs, fs_call.cwd, FsRoot(fs_call), fs_call.path)]
    /\ UNCHANGED <<pipeline_vars, trunc_call, header_call, extract_call>>

PipelineIdle ==
    /\ disk = <<>> /\ state = <<>> /\ pc = "idle" /\ idx = 0 /\ acc = <<>>
    /\ outdir = <<>> /\ error = "" /\ started = <<>> /\ events = <<>> /\ llm_log = <<>>

FsNext == ResolveUnderRootCall \/ ReadTextCall \/ RelpathCall

InitFs ==
    /\ PipelineIdle /\ FsInit
    /\ trunc_call = <<>> /\ header_call = <<>> /\ extract_call = <<>>

SpecFs == InitFs /\ [][FsNext]_vars

(***************************************************************************)
(* The operating system's own lookup of a path (what an open() of it       *)
(* reaches): every segment must exist, ".." is the parent of the directory *)
(* reached so far, links are followed.  [ok, at]: at is the entry reached. *)
(***************************************************************************)
RECURSIVE Namei(_, _, _, _)
Namei(fs, cur, rest, fuel) ==
    IF rest = <<>> THEN [ok |-> TRUE, at |-> cur]
    ELSE IF cur # <<>> /\ ~IsDir(fs, cur) THEN [ok |-> FALSE, at |-> <<>>]
    ELSE LET name == Head(rest)
             newpath == Append(cur, name)
         IN  IF name = DotDot
             THEN Namei(fs, IF cur = <<>> THEN <<>> ELSE Front(cur), Tail(rest), fuel)
             ELSE IF ~Exists(fs, newpath) \/ fuel = 0 THEN [ok |-> FALSE, at |-> <<>>]
             ELSE IF IsLink(fs, newpath)
             THEN Namei(fs, IF fs[newpath].target.abs THEN <<>> ELSE cur,
                        fs[newpath].target.parts \o Tail(rest), fuel - 1)
             ELSE Namei(fs, newpath, Tail(rest), fuel)

\* the absolute path an operation of the call c looks at, before any resolution
FsCandidate(c) ==
    IF c.op = "relpath"
    THEN (IF expanduser(c.path).abs THEN expanduser(c.path).parts
          ELSE c.cwd \o c.path.parts)
    ELSE (IF c.path.abs THEN c.path.parts ELSE FsRoot(c).parts \o c.path.parts)

FsCanonical(c) == JoinRealpath(c.fs, <<>>, FsCandidate(c), MaxLinkDepth)

FsEscapes(c) == ~IsPrefix(FsRoot(c).parts, FsCanonical(c))

FsReached(c) == Namei(c.fs, <<>>, FsCandidate(c), 2 * MaxLinkDepth + MaxPathLen)

\* C2: a path whose canonical resolution is neither the sandbox root nor a
\* descendant of it makes _resolve_under_root, read_text and relpath fail with
\* SandboxViolation and nothing is read; whatever read_text returns are the bytes
\* of a file under the root, the one the path leads to when the operating
\* system can follow the path at all.
C2_EscapeIsViolation ==
    fs_call.st = "done" =>
        /\ FsEscapes(fs_call) =>
              fs_call.result.status = "SandboxViolation" /\ fs_call.result.read_from = <<>>
        /\ (FsReached(fs_call).ok /\ ~IsPrefix(FsRoot(fs_call).parts, FsReached(fs_call).at)) =>
              fs_call.result.status = "SandboxViolation"
        /\ fs_call.result.read_from # <<>> =>
              /\ IsPrefix(FsRoot(fs_call).parts, fs_call.result.read_from)
              /\ IsFile(fs_call.fs, fs_call.result.read_from)
              /\ FsReached(fs_call).ok => FsReached(fs_call).at = fs_call.result.read_from

\* read_text was given a relative path without "..", so its text stays under the
\* root, but a link in it leads to a file outside: the call ended in SandboxViolation
C2_Witness ==
    /\ fs_call.st = "done" /\ fs_call.op = "read_text"
    /\ ~fs_call.path.abs /\ DotDot \notin Range(fs_call.path.parts)
    /\ nLnk \in Range(fs_call.path.parts)
    /\ FsReached(fs_call).ok /\ IsFile(fs_call.fs, FsReached(fs_call).at)
    /\ FsEscapes(fs_call)
    /\ fs_call.result.status = "SandboxViolation"

(***************************************************************************)
(* The header checker (agent/header_rules.py).                             *)
(***************************************************************************)
REQUIRED_KEYS ==
    <<"File name:", "Author:", "Date last modified:", "Python Version:",
      "Description:", "License:">>

top_lines == 40

HeaderCheckResult(ok, missing_keys, message) ==
    [ok |-> ok, missing_keys |-> missing_keys, message |-> message]

\* f"Missing header keys in first {top_lines} lines: {missing}"
MissingMessage(n, missing) ==
    [text |-> "Missing header keys in first {top_lines} lines: {missing}",
     top_lines |-> n, missing |-> missing]

EmptyDescriptionMessage ==
    [text |-> "Description field is present but empty.", top_lines |-> 0, missing |-> <<>>]

OkMessage == [text |-> "Header looks OK.", top_lines |-> 0, missing |-> <<>>]

\* re.search(r"Description:\s*(.+)", head).  A match at the marker head[i]: \s*
\* takes a run of whitespace (newlines too) and (.+) needs one character that is
\* no newline right after it.  \s* is greedy, so of the places where (.+) can
\* start the last one is taken, and (.+) runs to the end of that line.
GroupStarts(head, i) ==
    {j \in (i + 1)..Len(head) :
        /\ head[j] # "\n"
        /\ \A k \in (i + 1)..(j - 1) : head[k] \in Whitespace}

MatchStarts(head) ==
    {i \in 1..Len(head) : head[i] = "Description:" /\ GroupStarts(head, i) # {}}

Max(S) == CHOOSE x \in S : \A y \in S : y <= x
Min(S) == CHOOSE x \in S : \A y \in S : x <= y

LineEnd(head, j) ==
    Max({e \in j..Len(head) : \A k \in j..e : head[k] # "\n"})

\* [found, group1] of the leftmost match
DescriptionSearch(head) ==
    IF MatchStarts(head) = {} THEN [found |-> FALSE, group1 |-> <<>>]
    ELSE LET i == Min(MatchStarts(head))
             j == Max(GroupStarts(head, i))
         IN  [found |-> TRUE, group1 |-> SubSeq(head, j, LineEnd(head, j))]

check_header(source, n) ==
    LET lines == SplitLines(source)
        head == Join(<<"\n">>, SubSeq(lines, 1, IF Len(lines) < n THEN Len(lines) ELSE n))
        Absent(k) == k \notin Range(head)
        missing == SelectSeq(REQUIRED_KEYS, Absent)
        m == DescriptionSearch(head)
    IN  IF missing # <<>>
        THEN HeaderCheckResult(FALSE, missing, MissingMessage(n, missing))
        ELSE IF "Description:" \in Range(head) /\ (~m.found \/ Strip(m.group1) = <<>>)
        THEN HeaderCheckResult(FALSE, <<>>, EmptyDescriptionMessage)
        ELSE HeaderCheckResult(TRUE, <<>>, OkMessage)

(***************************************************************************)
(* Sources for the header checker: a block of header lines, one per        *)
(* marker that is present, after a number of blank lines.                  *)
(***************************************************************************)
MaxCut == 3            \* header lines that the blank lines push past line 40

HeaderOrders ==
    {<<"File name:", "Author:", "Date last modified:", "Python Version:", "Description:", "License:">>,
     <<"File name:", "Author:", "Date last modified:", "Python Version:", "License:", "Description:">>,
     <<"Description:", "File name:", "Author:", "Date last modified:", "Python Version:", "License:">>}

\* what follows the Description: marker
DescriptionStyles == {"text", "empty", "spaces", "next_line", "blank_line"}

HeaderLines(m, style) ==
    IF m # "Description:" THEN << <<m, " ", "x">> >>
    ELSE CASE style = "text" -> << <<m, " ", "x">> >>
           [] style = "empty" -> << <<m>> >>
           [] style = "spaces" -> << <<m, " ", " ">> >>
           [] style = "next_line" -> << <<m>>, <<" ", " ", "x">> >>
           [] style = "blank_line" -> << <<m>>, <<" ">> >>

RECURSIVE HeaderBlock(_, _, _)
HeaderBlock(order, present, style) ==
    IF order = <<>> THEN <<>>
    ELSE (IF Head(order) \in present THEN HeaderLines(Head(order), style) ELSE <<>>)
         \o HeaderBlock(Tail(order), present, style)

BlankLines(n) == [i \in 1..n |-> <<>>]

HeaderSource(pad, order, present, style, newline) ==
    Join(<<"\n">>, BlankLines(pad) \o HeaderBlock(order, present, style))
    \o (IF newline THEN <<"\n">> ELSE <<>>)

Pads == {0} \cup {top_lines - k : k \in 0..MaxCut}

HeaderInit ==
    \E pad \in Pads, order \in HeaderOrders, present \in SUBSET Range(REQUIRED_KEYS),
       style \in DescriptionStyles, newline \in BOOLEAN :
        header_call = [st |-> "called", source |-> HeaderSource(pad, order, present, style, newline),
                       result |-> HeaderCheckResult(FALSE, <<>>, OkMessage)]

CheckHeaderCall ==
    /\ header_call.st = "called"
    /\ header_call' = [header_call EXCEPT !.st = "done",
                           !.result = check_header(header_call.source, top_lines)]
    /\ UNCHANGED <<pipeline_vars, fs_call, trunc_call, extract_call>>

InitHeader ==
    /\ PipelineIdle /\ HeaderInit
    /\ fs_call = FsIdle /\ trunc_call = <<>> /\ extract_call = <<>>

NextHeader == CheckHeaderCall

SpecHeader == InitHeader /\ [][NextHeader]_vars

\* the first top_lines lines of a source, as check_header joins them
HeadOf(source) ==
    LET lines == SplitLines(source)
    IN  Join(<<"\n">>, SubSeq(lines, 1, IF Len(lines) < top_lines THEN Len(lines) ELSE top_lines))

AllMarkersIn(head) == \A i \in 1..Len(REQUIRED_KEYS) : REQUIRED_KEYS[i] \in Range(head)

\* nothing but whitespace and newlines stands between the first Description:
\* marker and the next header marker (or the end of the head)
NoDescriptiveText(head) ==
    LET i == Min({k \in 1..Len(head) : head[k] = "Description:"})
        stops == {k \in (i + 1)..Len(head) : head[k] \in Range(REQUIRED_KEYS)}
        last == IF stops = {} THEN Len(head) ELSE Min(stops) - 1
    IN  \A k \in (i + 1)..last : head[k] \in Whitespace

\* C8: when the first top_lines lines hold all six markers and no descriptive
\* text follows "Description:", check_header returns ok = False with the
\* empty-description message and no missing keys, whatever header lines follow.
C8_EmptyDescriptionFails ==
    (/\ header_call.st = "done"
     /\ AllMarkersIn(HeadOf(header_call.source))
     /\ NoDescriptiveText(HeadOf(header_call.source)))
    => header_call.result = HeaderCheckResult(FALSE, <<>>, EmptyDescriptionMessage)

(***************************************************************************)
(* Source truncation (agent/docgen.py).  Only the positions of the         *)
(* characters matter here: the source of length n is <<1, ..., n>> and the *)
(* truncation notice, 171 characters long, is <<-1, ..., -171>>.           *)
(***************************************************************************)
MaxCeiling == 12       \* values of max_source_chars
MaxExcess == 8         \* characters by which a source exceeds the ceiling

NoteLen == 171

TruncationNote == [i \in 1..NoteLen |-> 0 - i]

SourceOfLen(n) == [i \in 1..n |-> i]

\* int(max_chars * 0.65) and int(max_chars * 0.25): the double nearest to 0.65 lies
\* above 0.65 and the product never reaches the next integer, 0.25 is exact
HeadBudget(max_chars) == (max_chars * 65) \div 100
TailBudget(max_chars) == (max_chars * 25) \div 100

\* source[:k]
SliceTo(source, k) == SubSeq(source, 1, IF k < Len(source) THEN k ELSE Len(source))

\* source[-k:]: for k = 0 this is source[0:], the whole source
SliceLast(source, k) ==
    IF k = 0 \/ k >= Len(source) THEN source
    ELSE SubSeq(source, Len(source) - k + 1, Len(source))

_truncate_source(source, max_chars) ==
    LET head == SliceTo(source, HeadBudget(max_chars))
        tail == SliceLast(source, TailBudget(max_chars))
    IN  head \o TruncationNote \o tail

\* generate_doc_for_file, lines 107-109: the source that goes into the prompt
PromptSource(source, max_source_chars) ==
    IF Len(source) > max_source_chars
    THEN _truncate_source(source, max_source_chars)
    ELSE source

TruncInit ==
    \E c \in 1..MaxCeiling, n \in 1..(MaxCeiling + MaxExcess) :
        /\ n <= c + MaxExcess
        /\ trunc_call = [st |-> "called", source |-> SourceOfLen(n), max_source_chars |-> c,
                         prompt_source |-> <<>>]

TruncateCall ==
    /\ trunc_call.st = "called"
    /\ trunc_call' = [trunc_call EXCEPT !.st = "done",
           !.prompt_source = PromptSource(trunc_call.source, trunc_call.max_source_chars)]
    /\ UNCHANGED <<pipeline_vars, fs_call, header_call, extract_call>>

InitTrunc ==
    /\ PipelineIdle /\ TruncInit
    /\ fs_call = FsIdle /\ header_call = <<>> /\ extract_call = <<>>

NextTrunc == TruncateCall

SpecTrunc == InitTrunc /\ [][NextTrunc]_vars

\* the last k characters of a source
LastChars(source, k) == [i \in 1..k |-> source[Len(source) - k + i]]

\* C7: for a source longer than the ceiling, whatever the positive ceiling, the
\* source put into the prompt has at most max_source_chars characters and is the
\* leading floor(0.65 * ceiling) characters, the notice and the trailing
\* floor(0.25 * ceiling) characters of the original, in that order.
C7_TruncationBounds ==
    (trunc_call.st = "done" /\ Len(trunc_call.source) > trunc_call.max_source_chars) =>
        LET c == trunc_call.max_source_chars
            src == trunc_call.source
        IN  /\ Len(trunc_call.prompt_source) <= c
            /\ trunc_call.prompt_source =
                   SubSeq(src, 1, (65 * c) \div 100) \o TruncationNote
                   \o LastChars(src, (25 * c) \div 100)

(***************************************************************************)
(* Response normalization (agent/docgen.py).                               *)
(*                                                                         *)
(* A Python value is [k, s, items]: k its kind ("none", "str", "int",      *)
(* "list", "dict", or "obj" for an object with attributes such as a        *)
(* LangChain message), s the text of a str, items the entries in order:    *)
(* [key, v] with the key of a dict entry or the name of an attribute.      *)
(***************************************************************************)
NoneV == [k |-> "none", s |-> <<>>, items |-> <<>>]
IntV == [k |-> "int", s |-> <<>>, items |-> <<>>]
StrV(s) == [k |-> "str", s |-> s, items |-> <<>>]
Entry(key, v) == [key |-> key, v |-> v]
ListV(vals) == [k |-> "list", s |-> <<>>, items |-> [i \in 1..Len(vals) |-> Entry("", vals[i])]]
DictV(entries) == [k |-> "dict", s |-> <<>>, items |-> entries]
ObjV(attrs) == [k |-> "obj", s |-> <<>>, items |-> attrs]

HasKey(v, key) == \E i \in 1..Len(v.items) : v.items[i].key = key

Lookup(v, key) == v.items[CHOOSE i \in 1..Len(v.items) : v.items[i].key = key].v

\* dict.get(key): None when the key is absent
Get(d, key) == IF HasKey(d, key) THEN Lookup(d, key) ELSE NoneV

\* getattr(resp, name, None): only an object has attributes of that name
GetAttr(v, name) == IF v.k = "obj" /\ HasKey(v, name) THEN Lookup(v, name) ELSE NoneV

\* truth value of an Optional[str]
Truthy(v) == v.k = "str" /\ v.s # <<>>

\* str(resp) of a value that is no str: some text that names the value
StrOf(v) == <<"<", v.k, ">">>

dig_max_depth == 6

RECURSIVE _dig_for_string(_, _)
RECURSIVE DigFirst(_, _)

\* for it in items: s = _dig_for_string(it, depth); if s: return s
DigFirst(items, depth) ==
    IF items = <<>> THEN NoneV
    ELSE LET found == _dig_for_string(Head(items).v, depth)
         IN  IF Truthy(found) THEN found ELSE DigFirst(Tail(items), depth)

_dig_for_string(obj, depth) ==
    IF depth > dig_max_depth THEN NoneV
    ELSE IF obj.k = "str" THEN obj
    ELSE IF obj.k = "dict"
    THEN LET msg == Get(obj, "message")
             c == IF msg.k = "dict" THEN Get(msg, "content") ELSE NoneV
             ch == Get(obj, "choices")
             from_choices == IF ch.k = "list" THEN DigFirst(ch.items, depth + 1) ELSE NoneV
         IN  IF c.k = "str" THEN c
             ELSE IF Truthy(from_choices) THEN from_choices
             ELSE DigFirst(obj.items, depth + 1)
    ELSE IF obj.k = "list" THEN DigFirst(obj.items, depth + 1)
    ELSE NoneV

\* the texts of the items that are dicts tagged "text" with a str under "text"
RECURSIVE TextParts(_)
TextParts(items) ==
    IF items = <<>> THEN <<>>
    ELSE LET item == Head(items).v
             type == Get(item, "type")
         IN  (IF item.k = "dict" /\ type.k = "str" /\ type.s = <<"text">>
                 /\ Get(item, "text").k = "str"
              THEN <<Get(item, "text").s>> ELSE <<>>)
             \o TextParts(Tail(items))

\* for k in keys: v = resp.get(k); if isinstance(v, str): return v
RECURSIVE FirstStrUnder(_, _)
FirstStrUnder(resp, keys) ==
    IF keys = <<>> THEN NoneV
    ELSE IF Get(resp, Head(keys)).k = "str" THEN Get(resp, Head(keys))
    ELSE FirstStrUnder(resp, Tail(keys))

DirectKeys == <<"content", "text", "output", "message">>

\* the direct keys tried in another order
ExtractTextTextFirst(resp) ==
    LET content == GetAttr(resp, "content")
        parts == IF content.k = "list" THEN TextParts(content.items) ELSE <<>>
        direct == FirstStrUnder(resp, <<"text", "content", "output", "message">>)
        dug == _dig_for_string(resp, 0)
    IN  IF resp.k = "none" THEN <<>>
        ELSE IF resp.k = "str" THEN resp.s
        ELSE IF parts # <<>> THEN Join(<<"\n">>, parts)
        ELSE IF content.k = "str" THEN content.s
        ELSE IF resp.k = "dict" /\ direct.k = "str" THEN direct.s
        ELSE IF resp.k = "dict" /\ dug.k = "str" THEN dug.s
        ELSE StrOf(resp)

_extract_text(resp) ==
    LET content == GetAttr(resp, "content")
        parts == IF content.k = "list" THEN TextParts(content.items) ELSE <<>>
        direct == FirstStrUnder(resp, DirectKeys)
        dug == _dig_for_string(resp, 0)
    IN  IF resp.k = "none" THEN <<>>
        ELSE IF resp.k = "str" THEN resp.s
        ELSE IF parts # <<>> THEN Join(<<"\n">>, parts)
        ELSE IF content.k = "str" THEN content.s
        ELSE IF resp.k = "dict" /\ direct.k = "str" THEN direct.s
        ELSE IF resp.k = "dict" /\ dug.k = "str" THEN dug.s
        ELSE StrOf(resp)

(***************************************************************************)
(* Responses for the normalizer: None, a number, strings, a bare list,     *)
(* objects whose content attribute is absent, a str, a number or a list of *)
(* blocks, and dicts built from the keys the code looks for.               *)
(***************************************************************************)
MaxBlocks == 2         \* blocks in a content list
MaxNest == 7           \* lists wrapped around a string under the key "other"

Absent == [k |-> "absent", s |-> <<>>, items |-> <<>>]

TextBlock(t) == DictV(<<Entry("type", StrV(<<"text">>)), Entry("text", StrV(t))>>)

Blocks ==
    {TextBlock(<<"A">>), TextBlock(<<"B">>), TextBlock(<<>>),
     DictV(<<Entry("type", StrV(<<"image">>)), Entry("text", StrV(<<"A">>))>>),
     DictV(<<Entry("type", StrV(<<"text">>)), Entry("text", IntV)>>),
     StrV(<<"A">>)}

ObjResponses ==
    {ObjV(<<>>), ObjV(<<Entry("content", StrV(<<>>))>>), ObjV(<<Entry("content", StrV(<<"A">>))>>),
     ObjV(<<Entry("content", IntV)>>), ObjV(<<Entry("content", NoneV)>>)}
    \cup {ObjV(<<Entry("content", ListV(bs))>>) : bs \in SeqsUpTo(Blocks, MaxBlocks)}

RECURSIVE Nested(_, _)
Nested(n, t) == IF n = 0 THEN StrV(t) ELSE ListV(<<Nested(n - 1, t)>>)

KeyOrders ==
    {<<"content", "text", "output", "message", "choices", "other">>,
     <<"other", "choices", "message", "output", "text", "content">>}

ValuesFor(key) ==
    CASE key = "content" -> {Absent, StrV(<<"A">>), IntV}
      [] key = "text" -> {Absent, StrV(<<"B">>)}
      [] key = "output" -> {Absent, StrV(<<"C">>)}
      [] key = "message" ->
            {Absent, StrV(<<"D">>), DictV(<<Entry("content", StrV(<<"E">>))>>),
             DictV(<<Entry("content", StrV(<<>>))>>), DictV(<<Entry("content", IntV)>>)}
      [] key = "choices" ->
            {Absent,
             ListV(<<DictV(<<Entry("message", DictV(<<Entry("content", StrV(<<"F">>))>>))>>)>>),
             ListV(<<StrV(<<>>), StrV(<<"G">>)>>)}
      [] key = "other" -> {Absent} \cup {Nested(n, <<"H">>) : n \in 0..MaxNest}

RECURSIVE EntriesOf(_, _)
EntriesOf(order, pick) ==
    IF order = <<>> THEN <<>>
    ELSE (IF pick[Head(order)] = Absent THEN <<>> ELSE <<Entry(Head(order), pick[Head(order)])>>)
         \o EntriesOf(Tail(order), pick)

ExtractIdle == [st |-> "idle", resp |-> NoneV, text |-> <<>>]

ExtractInit ==
    \/ \E r \in {NoneV, IntV, StrV(<<>>), StrV(<<"A">>), ListV(<<StrV(<<"A">>)>>)} \cup ObjResponses :
          extract_call = [st |-> "called", resp |-> r, text |-> <<>>]
    \/ \E order \in KeyOrders :
       \E c \in ValuesFor("content"), t \in ValuesFor("text"), o \in ValuesFor("output"),
          m \in ValuesFor("message"), ch \in ValuesFor("choices"), x \in ValuesFor("other") :
          LET pick == [key \in Range(order) |->
                          CASE key = "content" -> c [] key = "text" -> t [] key = "output" -> o
                            [] key = "message" -> m [] key = "choices" -> ch [] key = "other" -> x]
          IN  extract_call = [st |-> "called", resp |-> DictV(EntriesOf(order, pick)), text |-> <<>>]

ExtractTextCall ==
    /\ extract_call.st = "called"
    /\ extract_call' = [extract_call EXCEPT !.st = "done", !.text = _extract_text(extract_call.resp)]
    /\ UNCHANGED <<pipeline_vars, fs_call, trunc_call, header_call>>

InitExtract ==
    /\ PipelineIdle /\ ExtractInit
    /\ fs_call = FsIdle /\ trunc_call = <<>> /\ header_call = <<>>

NextExtract == ExtractTextCall

SpecExtract == InitExtract /\ [][NextExtract]_vars

\* the shapes of a response, as the claim names them
ContentOf(r) == IF r.k = "obj" /\ HasKey(r, "content") THEN Lookup(r, "content") ELSE NoneV
IsTextBlock(b) ==
    /\ b.k = "dict" /\ HasKey(b, "type") /\ Lookup(b, "type") = StrV(<<"text">>)
    /\ HasKey(b, "text") /\ Lookup(b, "text").k = "str"
BlockTexts(c) ==
    LET IsText(e) == IsTextBlock(e.v)
        bs == SelectSeq(c.items, IsText)
    IN  [i \in 1..Len(bs) |-> Lookup(bs[i].v, "text").s]
StrKeys(r) == {i \in 1..Len(DirectKeys) : HasKey(r, DirectKeys[i]) /\ Lookup(r, DirectKeys[i]).k = "str"}
MessageContent(r) ==
    IF HasKey(r, "message") /\ Lookup(r, "message").k = "dict"
       /\ HasKey(Lookup(r, "message"), "content")
    THEN Lookup(Lookup(r, "message"), "content") ELSE NoneV

\* what shape (4) gives for a mapping, NoneV when it gives nothing
MappingText(r) ==
    IF StrKeys(r) # {} THEN Lookup(r, DirectKeys[Min(StrKeys(r))])
    ELSE IF MessageContent(r).k = "str" THEN MessageContent(r)
    ELSE _dig_for_string(r, 0)

\* C10 as stated: the result is that of the first applicable shape among (1) a
\* plain string, (2) a content attribute that is a list of blocks (the texts of
\* its text-tagged blocks joined by newlines), (3) a content attribute that is a
\* string, (4) a mapping, (5) otherwise the string conversion of the response.
C10_FirstShapeWins ==
    extract_call.st = "done" =>
        LET r == extract_call.resp
        IN  extract_call.text =
               IF r.k = "str" THEN r.s
               ELSE IF ContentOf(r).k = "list" THEN Join(<<"\n">>, BlockTexts(ContentOf(r)))
               ELSE IF ContentOf(r).k = "str" THEN ContentOf(r).s
               ELSE IF r.k = "dict" /\ MappingText(r).k = "str" THEN MappingText(r).s
               ELSE StrOf(r)

\* C10 amended: None gives the empty string, and a content list counts as shape
\* (2) only when it holds at least one text-tagged block; with that the result is
\* that of the first applicable shape, a mapping giving the string under the
\* first of content, text, output, message, else message.content, else what
\* the search (choices before the scan, down to depth 6) finds.
C10_Normalization ==
    extract_call.st = "done" =>
        LET r == extract_call.resp
            list_texts == IF ContentOf(r).k = "list" THEN BlockTexts(ContentOf(r)) ELSE <<>>
        IN  /\ extract_call.text =
                  IF r.k = "none" THEN <<>>
                  ELSE IF r.k = "str" THEN r.s
                  ELSE IF list_texts # <<>> THEN Join(<<"\n">>, list_texts)
                  ELSE IF ContentOf(r).k = "str" THEN ContentOf(r).s
                  ELSE IF r.k = "dict" /\ MappingText(r).k = "str" THEN MappingText(r).s
                  ELSE StrOf(r)
            /\ \A n \in 0..MaxNest :
                  r = DictV(<<Entry("other", Nested(n, <<"H">>))>>) =>
                      extract_call.text = IF n + 1 <= dig_max_depth THEN <<"H">> ELSE StrOf(r)
            /\ (r.k = "dict" /\ StrKeys(r) = {} /\ MessageContent(r).k # "str"
                /\ HasKey(r, "choices") /\ Lookup(r, "choices").k = "list"
                /\ Lookup(r, "choices").items # <<>>
                /\ Head(Lookup(r, "choices").items).v.k = "dict")
               => extract_call.text = <<"F">>

\* a mapping that holds "text" before "content", both strings: content wins
C10_Witness ==
    /\ extract_call.st = "done" /\ extract_call.resp.k = "dict"
    /\ HasKey(extract_call.resp, "text") /\ Get(extract_call.resp, "content").k = "str"
    /\ extract_call.resp.items[Len(extract_call.resp.items)].key = "content"
    /\ extract_call.text = <<"A">>

(***************************************************************************)
(* Post-processing and output naming (agent/docgen.py).                    *)
(***************************************************************************)
\* str(path) of a relative path and Path(text): the parts joined by, split at, "/"
PathStr(parts) == Join(<<"/">>, parts)

RECURSIVE SplitAtSlash(_, _)
SplitAtSlash(s, cur) ==
    IF s = <<>> THEN (IF cur = <<>> THEN <<>> ELSE <<cur>>)
    ELSE IF Head(s) = "/" THEN (IF cur = <<>> THEN <<>> ELSE <<cur>>) \o SplitAtSlash(Tail(s), <<>>)
    ELSE SplitAtSlash(Tail(s), Append(cur, Head(s)))

StrPath(text) ==
    [abs |-> text # <<>> /\ Head(text) = "/", parts |-> SplitAtSlash(text, <<>>)]

safe_doc_filename(rel) == Join(<<"_", "_">>, rel.parts) \o <<".md">>

\* the whole content wrapped in one fence of three backquotes is unwrapped once
_unwrap_single_fence(t) ==
    LET lines == SplitLines(t)
    IN  IF t # <<>> /\ Head(t) = "FENCE" /\ t[Len(t)] = "FENCE"
           /\ Len(lines) >= 3
           /\ lines[1] # <<>> /\ Head(lines[1]) = "FENCE"
           /\ lines[Len(lines)] # <<>> /\ Head(lines[Len(lines)]) = "FENCE"
        THEN Strip(Join(<<"\n">>, SubSeq(lines, 2, Len(lines) - 1)))
        ELSE t

\* re.match(r"^\s*#\s+", t)
StartsWithTitle(t) ==
    LET rest == LStrip(t)
    IN  Len(rest) >= 2 /\ rest[1] = "#" /\ rest[2] \in Whitespace

_postprocess_markdown(text, rel) ==
    LET t == _unwrap_single_fence(Strip(text))
    IN  IF ~StartsWithTitle(t)
        THEN <<"#", " ">> \o PathStr(rel.parts) \o <<"\n", "\n">> \o t
        ELSE t

max_source_chars == 120000

\* generate_doc_for_file for one outcome of the LLM call (llm.raises, or llm.resp
\* returned).  [status, prompt_chars, invoked, blank, name, data]: the exception
\* or "ok", the length of the source put into the prompt, whether out_dir was
\* created and the LLM called, whether the text extracted from the response was
\* blank, the file written and its text.
GenResult(status, prompt_chars, invoked, blank, name, data) ==
    [status |-> status, prompt_chars |-> prompt_chars, invoked |-> invoked, blank |-> blank,
     name |-> name, data |-> data]

generate_doc_for_file(llm, rel, source) ==
    LET prompt_source == PromptSource(source, max_source_chars)
        extracted == _extract_text(llm.resp)
        text == _postprocess_markdown(extracted, rel)
    IN  IF source = <<>> \/ Strip(source) = <<>>
        THEN GenResult("ValueError", 0, FALSE, FALSE, <<>>, <<>>)
        ELSE IF llm.raises
        THEN GenResult("RuntimeError", Len(prompt_source), TRUE, FALSE, <<>>, <<>>)
        ELSE IF Strip(text) = <<>>
        THEN GenResult("RuntimeError", Len(prompt_source), TRUE, Strip(extracted) = <<>>,
                       <<>>, <<>>)
        ELSE GenResult("ok", Len(prompt_source), TRUE, Strip(extracted) = <<>>,
                       safe_doc_filename(rel), RStrip(text) \o <<"\n">>)

(***************************************************************************)
(* The secret scanner (agent/secrets_scan.py): one finding for every line  *)
(* that holds the token "SECRET".                                          *)
(***************************************************************************)
scan_for_secrets(source) ==
    LET lines == SplitLines(source)
        Hit(i) == "SECRET" \in Range(lines[i])
        RECURSIVE Findings(_)
        Findings(i) ==
            IF i > Len(lines) THEN <<>>
            ELSE (IF Hit(i) THEN <<[kind |-> "generic", line |-> i, excerpt |-> <<"SECRET">>]>>
                  ELSE <<>>) \o Findings(i + 1)
    IN  Findings(1)

(***************************************************************************)
(* list_python_files: sorted(root_dir.rglob("*.py")).  rglob yields every  *)
(* entry below the root whose name ends in ".py", whatever its type, and   *)
(* descends into directories but not into links; sorted() orders Paths by  *)
(* their parts, each part as a string.                                     *)
(***************************************************************************)
CharRank(t) ==
    CASE t = ".py" -> 1 [] t = "_" -> 2 [] t = "a" -> 3 [] t = "b" -> 4 [] t = "c" -> 5
      [] OTHER -> 6

RECURSIVE NameLess(_, _)
NameLess(m, n) ==
    IF n = <<>> THEN FALSE
    ELSE IF m = <<>> THEN TRUE
    ELSE IF CharRank(Head(m)) # CharRank(Head(n)) THEN CharRank(Head(m)) < CharRank(Head(n))
    ELSE NameLess(Tail(m), Tail(n))

RECURSIVE PathLess(_, _)
PathLess(p, q) ==
    IF q = <<>> THEN FALSE
    ELSE IF p = <<>> THEN TRUE
    ELSE IF Head(p) # Head(q) THEN NameLess(Head(p), Head(q))
    ELSE PathLess(Tail(p), Tail(q))

RECURSIVE SetToSeq(_)
SetToSeq(S) == IF S = {} THEN <<>> ELSE LET x == CHOOSE y \in S : TRUE IN <<x>> \o SetToSeq(S \ {x})

Matches(fs, root_dir) ==
    {p \in DOMAIN fs :
        /\ IsPrefix(root_dir.parts, p) /\ Len(p) > Len(root_dir.parts)
        /\ p[Len(p)] # <<>> /\ p[Len(p)][Len(p[Len(p)])] = ".py"
        /\ \A n \in (Len(root_dir.parts) + 1)..(Len(p) - 1) : IsDir(fs, SubSeq(p, 1, n))}

list_python_files(fs, root_dir) == SortSeq(SetToSeq(Matches(fs, root_dir)), PathLess)

(***************************************************************************)
(* The graph (agent/graph_agent.py).                                       *)
(***************************************************************************)
\* build_graph without the edge into scan_secrets
BuildGraphSkippingScan(node) ==
    CASE node = "discover_files" -> "check_headers"
      [] node = "check_headers" -> "generate_docs"
      [] node = "scan_secrets" -> "generate_docs"
      [] node = "generate_docs" -> "finalize"
      [] node = "finalize" -> "END"

\* build_graph: the edge that leaves each node
build_graph(node) ==
    CASE node = "discover_files" -> "check_headers"
      [] node = "check_headers" -> "scan_secrets"
      [] node = "scan_secrets" -> "generate_docs"
      [] node = "generate_docs" -> "finalize"
      [] node = "finalize" -> "END"

AgentState(request, root_dir, out_dir) ==
    [request |-> request, root_dir |-> root_dir, out_dir |-> out_dir,
     file_list |-> <<>>, header_issues |-> EmptyDict, secrets |-> EmptyDict,
     docs |-> EmptyDict, summary |-> <<>>]

\* ReadOnlySandboxFS(Path(state.root_dir)).root_dir; the process runs in "/"
SandboxRoot == post_init(disk, <<>>, StrPath(state.root_dir))

Event(node, rel, outcome, blank) == [node |-> node, rel |-> rel, outcome |-> outcome, blank |-> blank]

\* the exception leaves graph.ainvoke: the run is over
Abort(exc) == pc' = "failed" /\ error' = exc

\* the node returns and the graph follows its edge
Leave(node) == pc' = build_graph(node) /\ started' = Append(started, build_graph(node))

node_discover_files ==
    /\ pc = "discover_files"
    /\ LET py_files == list_python_files(disk, SandboxRoot)
           rels == [i \in 1..Len(py_files) |-> relpath(disk, <<>>, SandboxRoot, AbsPath(py_files[i]))]
           bad == {i \in 1..Len(py_files) : rels[i].status # "ok"}
       IN  IF bad # {}
           THEN Abort(rels[Min(bad)].status) /\ UNCHANGED <<state, started>>
           ELSE /\ state' = [state EXCEPT
                                !.file_list = [i \in 1..Len(py_files) |-> PathStr(rels[i].value.parts)]]
                /\ Leave("discover_files") /\ UNCHANGED error
    /\ idx' = 1 /\ acc' = EmptyDict
    /\ UNCHANGED <<disk, outdir, events, llm_log, call_vars>>

\* issues[rel] = res.message
IssuesAfter(issues, rel, res) == IF ~res.ok THEN DictSet(issues, rel, res.message) ELSE issues

\* one pass of the loop of node_check_headers
CheckHeadersFile ==
    /\ pc = "check_headers" /\ idx <= Len(state.file_list)
    /\ LET rel == state.file_list[idx]
           src == read_text(disk, SandboxRoot, StrPath(rel))
       IN  IF src.status # "ok"
           THEN /\ Abort(src.status)
                /\ events' = Append(events, Event("check_headers", rel, src.status, FALSE))
                /\ UNCHANGED <<idx, acc>>
           ELSE /\ acc' = IssuesAfter(acc, rel, check_header(src.value, top_lines))
                /\ events' = Append(events, Event("check_headers", rel, "ok", FALSE))
                /\ idx' = idx + 1 /\ UNCHANGED <<pc, error>>
    /\ UNCHANGED <<disk, state, outdir, started, llm_log, call_vars>>

\* check_headers returning a state whose file_list it has emptied as well
CheckHeadersReturnDroppingFileList ==
    /\ pc = "check_headers" /\ idx > Len(state.file_list)
    /\ state' = [state EXCEPT !.header_issues = acc, !.file_list = <<>>]
    /\ Leave("check_headers") /\ idx' = 1 /\ acc' = EmptyDict
    /\ UNCHANGED <<disk, outdir, error, events, llm_log, call_vars>>

\* the loop is over: state.header_issues = issues; return state
CheckHeadersReturn ==
    /\ pc = "check_headers" /\ idx > Len(state.file_list)
    /\ state' = [state EXCEPT !.header_issues = acc]
    /\ Leave("check_headers") /\ idx' = 1 /\ acc' = EmptyDict
    /\ UNCHANGED <<disk, outdir, error, events, llm_log, call_vars>>

\* all_findings[rel] = [{"kind": ..., "line": ..., "excerpt": ...} for f in findings]
FindingsAfter(all_findings, rel, findings) ==
    IF findings # <<>> THEN DictSet(all_findings, rel, findings) ELSE all_findings

\* one pass of the loop of node_scan_secrets
ScanSecretsFile ==
    /\ pc = "scan_secrets" /\ idx <= Len(state.file_list)
    /\ LET rel == state.file_list[idx]
           src == read_text(disk, SandboxRoot, StrPath(rel))
       IN  IF src.status # "ok"
           THEN /\ Abort(src.status)
                /\ events' = Append(events, Event("scan_secrets", rel, src.status, FALSE))
                /\ UNCHANGED <<idx, acc>>
           ELSE /\ acc' = FindingsAfter(acc, rel, scan_for_secrets(src.value))
                /\ events' = Append(events, Event("scan_secrets", rel, "ok", FALSE))
                /\ idx' = idx + 1 /\ UNCHANGED <<pc, error>>
    /\ UNCHANGED <<disk, state, outdir, started, llm_log, call_vars>>

ScanSecretsReturn ==
    /\ pc = "scan_secrets" /\ idx > Len(state.file_list)
    /\ state' = [state EXCEPT !.secrets = acc]
    /\ Leave("scan_secrets") /\ idx' = 1 /\ acc' = EmptyDict
    /\ UNCHANGED <<disk, outdir, error, events, llm_log, call_vars>>

\* what the LLM may do with a prompt: raise, or return one of these responses
FencedDoc == <<"FENCE", "\n", "#", " ", "T", "\n", "x", "\n", "FENCE">>

LlmOutcomes ==
    {[raises |-> TRUE, resp |-> NoneV]}
    \cup {[raises |-> FALSE, resp |-> r] :
            r \in {StrV(<<>>), StrV(<<" ", "\n">>), StrV(<<"#", " ", "T", "\n", "x">>),
                   ObjV(<<Entry("content", StrV(FencedDoc))>>), NoneV}}

\* Path(state.out_dir).expanduser().resolve() / name, as a string
OutPath(name) == state.out_dir \o <<"/">> \o name

\* docs[str(res.out_path)] = rel
DocsKeyedByOutPath(docs, rel, out_path) == DictSet(docs, out_path, rel)

\* docs[rel] = str(res.out_path)
DocsAfter(docs, rel, out_path) == DictSet(docs, rel, out_path)

\* stands for the LLM when generate_doc_for_file fails before calling it
NoCall == [raises |-> TRUE, resp |-> NoneV]

\* one pass of the loop of node_generate_docs, up to and past the awaited call
GenerateDocsFile ==
    /\ pc = "generate_docs" /\ idx <= Len(state.file_list)
    /\ LET rel == state.file_list[idx]
           src == read_text(disk, SandboxRoot, StrPath(rel))
       IN  IF src.status # "ok"
           THEN /\ Abort(src.status)
                /\ events' = Append(events, Event("generate_docs", rel, src.status, FALSE))
                /\ UNCHANGED <<idx, acc, outdir, llm_log>>
           ELSE \E llm \in IF generate_doc_for_file(NoCall, StrPath(rel), src.value).invoked
                           THEN LlmOutcomes ELSE {NoCall} :
                LET res == generate_doc_for_file(llm, StrPath(rel), src.value)
                IN  /\ events' = Append(events, Event("generate_docs", rel, res.status, res.blank))
                    /\ llm_log' = IF res.invoked
                                  THEN Append(llm_log, [rel |-> rel, chars |-> res.prompt_chars])
                                  ELSE llm_log
                    /\ outdir' = [exists |-> outdir.exists \/ res.invoked,
                                  files |-> IF res.status = "ok"
                                            THEN DictSet(outdir.files, res.name, res.data)
                                            ELSE outdir.files]
                    /\ IF res.status # "ok"
                       THEN Abort(res.status) /\ UNCHANGED <<idx, acc>>
                       ELSE /\ acc' = DocsAfter(acc, rel, OutPath(res.name))
                            /\ idx' = idx + 1 /\ UNCHANGED <<pc, error>>
    /\ UNCHANGED <<disk, state, started, call_vars>>

GenerateDocsReturn ==
    /\ pc = "generate_docs" /\ idx > Len(state.file_list)
    /\ state' = [state EXCEPT !.docs = acc]
    /\ Leave("generate_docs") /\ idx' = 1 /\ acc' = EmptyDict
    /\ UNCHANGED <<disk, outdir, error, events, llm_log, call_vars>>

\* the five lines of the summary: the four counts and the output directory
Summary(st) ==
    <<"Processed", Len(st.file_list), "Header issues", Cardinality(DOMAIN st.header_issues),
      "Secret findings", Cardinality(DOMAIN st.secrets),
      "Docs generated", Cardinality(DOMAIN st.docs), "Output dir", st.out_dir>>

node_finalize ==
    /\ pc = "finalize"
    /\ state' = [state EXCEPT !.summary = Summary(state)]
    /\ Leave("finalize")
    /\ UNCHANGED <<disk, idx, acc, outdir, error, events, llm_log, call_vars>>

(***************************************************************************)
(* Runs of the pipeline.  The sandbox root /r holds up to three entries    *)
(* that rglob("*.py") finds: a/b.py, a__b.py and c.py.  Each is absent or  *)
(* one of: a file with a complete header, a file without the License:      *)
(* marker, a file whose Description: is followed by nothing (last in the   *)
(* header, or right before License:), a file whose header starts on line   *)
(* 41, a blank file, a file with a secret, a file larger than max_bytes, a *)
(* directory, a link to a/b.py, a link to /o/s.py outside the root.        *)
(***************************************************************************)
nC == <<"c", ".py">>
nA__Bpy == <<"a", "_", "_", "b", ".py">>
nOut == <<"/", "o", "u", "t">>

AllKeys == Range(REQUIRED_KEYS)
StandardOrder ==
    <<"File name:", "Author:", "Date last modified:", "Python Version:", "Description:", "License:">>
DescriptionLast ==
    <<"File name:", "Author:", "Date last modified:", "Python Version:", "License:", "Description:">>

Body == <<"\n", "x", "\n">>

TextFile(data) == File(data, Len(data))

EntryOfKind(kind) ==
    CASE kind = "good" -> TextFile(HeaderSource(0, StandardOrder, AllKeys, "text", TRUE) \o Body)
      [] kind = "no_license" ->
            TextFile(HeaderSource(0, StandardOrder, AllKeys \ {"License:"}, "text", TRUE) \o Body)
      [] kind = "empty_desc_last" ->
            TextFile(HeaderSource(0, DescriptionLast, AllKeys, "empty", TRUE))
      [] kind = "empty_desc" ->
            TextFile(HeaderSource(0, StandardOrder, AllKeys, "empty", TRUE) \o Body)
      [] kind = "late_header" ->
            TextFile(HeaderSource(top_lines, StandardOrder, AllKeys, "text", TRUE) \o Body)
      [] kind = "blank" -> TextFile(<<" ", "\n">>)
      [] kind = "secret" ->
            TextFile(HeaderSource(0, StandardOrder, AllKeys, "text", TRUE) \o <<"x", "\n", "SECRET", "\n">>)
      [] kind = "huge" -> File(<<"x">>, max_bytes + 1)
      [] kind = "dir" -> Dir
      [] kind = "link_in" -> Link(RelPath(<<nA, nBpy>>))
      [] kind = "link_out" -> Link(AbsPath(<<nO, nSpy>>))

KindsOfAB == {"absent", "good", "no_license", "empty_desc", "blank", "huge"}
KindsOfA__B == {"absent", "good", "empty_desc_last", "secret", "huge"}
KindsOfC == {"absent", "good", "no_license", "secret", "late_header", "dir", "link_in", "link_out"}

Optional(p, kind) == IF kind = "absent" THEN <<>> ELSE (p :> EntryOfKind(kind))

Disk(ab, a__b, c) ==
    (<<nR>> :> Dir) @@ (<<nR, nA>> :> Dir) @@ (<<nO>> :> Dir) @@ (<<nO, nSpy>> :> TextFile(SecretData))
    @@ Optional(<<nR, nA, nBpy>>, ab) @@ Optional(<<nR, nA__Bpy>>, a__b) @@ Optional(<<nR, nC>>, c)

\* run_agent: state = AgentState(request=..., root_dir=..., out_dir=...); the
\* graph starts at its entry point
Init ==
    /\ \E ab \in KindsOfAB, a__b \in KindsOfA__B, c \in KindsOfC : disk = Disk(ab, a__b, c)
    /\ state = AgentState(<<"x">>, <<"/">> \o nR, nOut)
    /\ pc = "discover_files" /\ started = <<"discover_files">>
    /\ idx = 1 /\ acc = EmptyDict
    /\ outdir = [exists |-> FALSE, files |-> EmptyDict]
    /\ error = "" /\ events = <<>> /\ llm_log = <<>>
    /\ fs_call = FsIdle /\ trunc_call = <<>> /\ header_call = <<>> /\ extract_call = <<>>

Next ==
    \/ node_discover_files
    \/ CheckHeadersFile
    \/ CheckHeadersReturn
    \/ ScanSecretsFile
    \/ ScanSecretsReturn
    \/ GenerateDocsFile
    \/ GenerateDocsReturn
    \/ node_finalize

Spec == Init /\ [][Next]_vars

(***************************************************************************)
(* Properties of the runs.                                                 *)
(***************************************************************************)
GraphOrder ==
    <<"discover_files", "check_headers", "scan_secrets", "generate_docs", "finalize", "END">>

LoopNodes == <<"check_headers", "scan_secrets", "generate_docs">>

Entered(node) == node \in Range(started)

\* the files a node has handled, in the order it handled them
RelsOf(node) ==
    LET OfNode(e) == e.node = node
        es == SelectSeq(events, OfNode)
    IN  [i \in 1..Len(es) |-> es[i].rel]

AllOk(node) == \A i \in 1..Len(events) : events[i].node = node => events[i].outcome = "ok"

\* C1: the nodes run in the one order discover_files, check_headers,
\* scan_secrets, generate_docs, finalize, END, each at most once; every node
\* handles the files in the order of file_list, and a node handles no file
\* before the node before it has handled every file of file_list.
C1_FixedStageOrder ==
    /\ IsPrefix(started, GraphOrder)
    /\ pc \in {started[Len(started)], "failed"}
    /\ events = Flatten([n \in 1..Len(LoopNodes) |->
                           SelectSeq(events, LAMBDA e : e.node = LoopNodes[n])])
    /\ \A n \in 1..Len(LoopNodes) :
          /\ IsPrefix(RelsOf(LoopNodes[n]), state.file_list)
          /\ RelsOf(LoopNodes[n]) # <<>> => Entered(LoopNodes[n])
          /\ (n > 1 /\ RelsOf(LoopNodes[n]) # <<>>) =>
                 RelsOf(LoopNodes[n - 1]) = state.file_list /\ AllOk(LoopNodes[n - 1])
    /\ Entered("finalize") => RelsOf("generate_docs") = state.file_list

\* a run over at least two files has reached END through all five nodes
C1_Witness ==
    /\ pc = "END" /\ started = GraphOrder
    /\ Len(state.file_list) >= 2
    /\ Len(events) = 3 * Len(state.file_list)

\* C3: a file of file_list that cannot be read (missing, no regular file, larger
\* than max_bytes) in check_headers or scan_secrets does not end the run.
C3_ReadFailureIsolated ==
    ~(/\ pc = "failed"
      /\ started[Len(started)] \in {"check_headers", "scan_secrets"}
      /\ error \in {"FileNotFoundError", "ValueError"})

\* C4: once generate_docs has completed, state.docs has exactly the relative
\* paths of file_list as keys, each mapped to its output path, whatever
\* header_issues and secrets hold; docs is set by nothing else.
C4_DocsCoverFileList ==
    /\ Entered("finalize") =>
          /\ DOMAIN state.docs = Range(state.file_list)
          /\ \A rel \in DOMAIN state.docs :
                state.docs[rel] = OutPath(safe_doc_filename(StrPath(rel)))
    /\ ~Entered("finalize") => state.docs = EmptyDict

\* generate_docs has completed over a file with a header issue, a file with a
\* secret finding and a file with neither
C4_Witness ==
    /\ pc = "END"
    /\ \E r1, r2, r3 \in DOMAIN state.docs :
          /\ r1 \in DOMAIN state.header_issues
          /\ r2 \in DOMAIN state.secrets
          /\ r3 \notin DOMAIN state.header_issues /\ r3 \notin DOMAIN state.secrets

\* C5: two distinct relative paths of a run never get the same output file
\* name, so after generate_docs the output directory holds one file for each
\* discovered relative path.
C5_DistinctOutputFiles ==
    Entered("finalize") =>
        /\ \A r1, r2 \in Range(state.file_list) :
              r1 # r2 => safe_doc_filename(StrPath(r1)) # safe_doc_filename(StrPath(r2))
        /\ Cardinality(DOMAIN outdir.files) = Cardinality(Range(state.file_list))

\* C6: when the text extracted from the LLM's response is empty or only
\* whitespace, generate_doc_for_file raises RuntimeError and writes no file.
C6_EmptyContentFails ==
    \A i \in 1..Len(events) :
        (events[i].node = "generate_docs" /\ events[i].blank) =>
            /\ events[i].outcome = "RuntimeError"
            /\ safe_doc_filename(StrPath(events[i].rel)) \notin DOMAIN outdir.files

\* the text of a file of file_list
SourceOf(rel) == read_text(disk, SandboxRoot, StrPath(rel)).value

MissingKeys(head) == SelectSeq(REQUIRED_KEYS, LAMBDA k : k \notin Range(head))

\* C9: after check_headers, the keys of header_issues are exactly the files of
\* file_list whose first 40 lines lack a required marker (the message lists all
\* the markers that are missing) or hold a Description: with no text after it.
C9_HeaderIssuesExact ==
    Entered("scan_secrets") =>
        /\ DOMAIN state.header_issues =
              {rel \in Range(state.file_list) :
                  \/ MissingKeys(HeadOf(SourceOf(rel))) # <<>>
                  \/ NoDescriptiveText(HeadOf(SourceOf(rel)))}
        /\ \A rel \in DOMAIN state.header_issues :
              state.header_issues[rel] =
                  IF MissingKeys(HeadOf(SourceOf(rel))) # <<>>
                  THEN MissingMessage(top_lines, MissingKeys(HeadOf(SourceOf(rel))))
                  ELSE EmptyDescriptionMessage

\* the field of the state that each node assigns
OwnField(node) ==
    CASE node = "discover_files" -> "file_list"
      [] node = "check_headers" -> "header_issues"
      [] node = "scan_secrets" -> "secrets"
      [] node = "generate_docs" -> "docs"
      [] node = "finalize" -> "summary"

\* C11: a step of a node changes no field of the state but the node's own
\* (file_list for discover_files, header_issues for check_headers, secrets for
\* scan_secrets, docs for generate_docs, summary for finalize); once
\* discover_files has returned, file_list, request, root_dir and out_dir stay as
\* they are, and the file a later node handles is the entry of the stored
\* file_list at the position of its loop, not one found by listing the tree again.
C11_StageFrame ==
    [][/\ pc \in Range(GraphOrder) \ {"END"}
       /\ \A f \in (DOMAIN state) \ {OwnField(pc)} : state'[f] = state[f]
       /\ pc # "discover_files" =>
              /\ state'.file_list = state.file_list /\ state'.request = state.request
              /\ state'.root_dir = state.root_dir /\ state'.out_dir = state.out_dir
       /\ events' # events =>
              /\ Len(events') = Len(events) + 1
              /\ idx \in 1..Len(state.file_list)
              /\ events'[Len(events')].rel = state.file_list[idx]
              /\ events'[Len(events')].node = pc]_vars

\* a run has reached END and each of the five nodes has left something in its
\* own field
C11_Witness ==
    /\ pc = "END"
    /\ state.file_list # <<>> /\ state.header_issues # EmptyDict /\ state.secrets # EmptyDict
    /\ state.docs # EmptyDict /\ state.summary # <<>>
    /\ state.request = <<"x">> /\ state.out_dir = nOut

\* the k-th file handled was one that generate_docs could not document: its
\* source was blank, the LLM call raised, or the text generated was blank
DocFailureAt(k) ==
    /\ events[k].node = "generate_docs"
    /\ \/ Strip(SourceOf(events[k].rel)) = <<>>
       \/ events[k].outcome = "RuntimeError"
       \/ events[k].blank

\* the run ended with the k-th file handled: finalize never ran, nothing was
\* handled and no LLM call was made after it, the state holds no docs and no
\* summary, and the files written before it are still in the output directory
RunEndedAt(k) ==
    /\ pc = "failed" /\ error # "" /\ ~Entered("finalize")
    /\ k = Len(events)
    /\ Len(llm_log) <= Len(RelsOf("generate_docs"))
    /\ \A i \in 1..Len(llm_log) : llm_log[i].rel = RelsOf("generate_docs")[i]
    /\ state.docs = EmptyDict /\ state.summary = <<>>
    /\ \A j \in 1..(k - 1) :
          events[j].node = "generate_docs" =>
              safe_doc_filename(StrPath(events[j].rel)) \in DOMAIN outdir.files

\* C12: when doc generation fails for a file of file_list (empty source,
\* failed LLM call, or empty generation) the error leaves generate_docs and the
\* run ends without finalize: no LLM call for a later file, no entry in
\* state.docs, an empty summary, and the earlier output files still in place.
C12_DocFailureEndsRun ==
    \A k \in 1..Len(events) : DocFailureAt(k) => RunEndedAt(k)

====
